---------------------------- MODULE Spec2Model ----------------------------
(***************************************************************************)
(* relative-link-check: the link resolution engine of src/tree.rs and the  *)
(* href classification of src/html.rs.                                     *)
(*                                                                         *)
(* A string is a sequence of one-character strings.  A path (PathBuf) is   *)
(* the string it holds; the operations of std::path are computed on that   *)
(* string the way the unix implementation computes them.                   *)
(***************************************************************************)
EXTENDS Naturals, Sequences, FiniteSets

VARIABLES
    pc,       \* position of the run that is being modelled
    input,    \* the argument of the pure function under study
    link,     \* result of HtmlFileLink::new(input)
    norm,     \* result of normalize_path(input)
    norm2,    \* result of normalize_path(norm)
    walk,     \* entries the directory walk has still to yield
    files,    \* HtmlFiles.0: the index, key -> HtmlInfo
    found,    \* result of contains(link)
    missing   \* result of missing_file_links()

vars == <<pc, input, link, norm, norm2, walk, files, found, missing>>

-----------------------------------------------------------------------------
(* Bounds of the model *)

\* longest generated input string of HtmlFileLink::new and normalize_path
MaxLen == 4

-----------------------------------------------------------------------------
(* Strings *)

HASH == "#"
SEP == "/"
DOT == "."
NL == "\n"

RECURSIVE StringsUpTo(_, _)
StringsUpTo(alphabet, n) ==
    IF n = 0 THEN {<<>>}
    ELSE LET shorter == StringsUpTo(alphabet, n - 1)
         IN  shorter \cup {Append(s, c) : s \in {t \in shorter : Len(t) = n - 1},
                                          c \in alphabet}

\* s[from..] (1-based); the empty string when from > Len(s)
Suffix(s, from) == SubSeq(s, from, Len(s))

\* s[1..to]
Prefix(s, to) == SubSeq(s, 1, to)

HasChar(s, c) == \E i \in 1..Len(s) : s[i] = c

CountChar(s, c) == Cardinality({i \in 1..Len(s) : s[i] = c})

\* Option<String>
None == [some |-> FALSE, text |-> <<>>]
Some(t) == [some |-> TRUE, text |-> t]

-----------------------------------------------------------------------------
(* HtmlFileLink::new, src/tree.rs:20-30 *)

\* MatchesAt with a fragment group that takes any text, "(.*)" for "([^#]*)"
MatchesAtAnyFragment(s, i) ==
    /\ \A k \in 1..i : s[k] # NL
    /\ \/ i = Len(s)
       \/ i < Len(s) /\ s[i + 1] = HASH

\* Whether the pattern "^(.*?)(?:#([^#]*))?$" matches s with group 1 = s[1..i]:
\* '.' matches any character but a line feed; then either the optional group
\* takes a '#' and a '#'-free rest up to the end of the text, or it is skipped
\* and the text ends at i.
MatchesAt(s, i) ==
    /\ \A k \in 1..i : s[k] # NL
    /\ \/ i = Len(s)
       \/ /\ i < Len(s)
          /\ s[i + 1] = HASH
          /\ ~HasChar(Suffix(s, i + 2), HASH)

\* pattern.captures(path): group 1 is lazy, so the match with the shortest
\* group 1 wins; the optional group is greedy, so it takes part when it can.
\* matched = FALSE is captures() returning None.
Captures(s) ==
    LET ends == {i \in 0..Len(s) : MatchesAt(s, i)}
    IN  IF ends = {} THEN [matched |-> FALSE, g1 |-> <<>>, g2 |-> None]
        ELSE LET i == CHOOSE e \in ends : \A o \in ends : e <= o
             IN  [matched |-> TRUE,
                  g1 |-> Prefix(s, i),
                  g2 |-> IF i < Len(s) THEN Some(Suffix(s, i + 2)) ELSE None]

\* HtmlFileLinkNew with the path taken from group 0, the whole match
HtmlFileLinkNewWholeMatch(s) ==
    LET captures == Captures(s)
    IN  IF captures.matched
        THEN [panicked |-> FALSE,
              path |-> s,
              fragment |-> IF captures.g2.some /\ captures.g2.text # <<>>
                           THEN Some(captures.g2.text)
                           ELSE None]
        ELSE [panicked |-> TRUE, path |-> <<>>, fragment |-> None]

\* An HtmlFileLink, or panicked = TRUE for the panic of line 29.
\* Line 26 turns a present but empty group 2 into None.
HtmlFileLinkNew(s) ==
    LET captures == Captures(s)
    IN  IF captures.matched
        THEN [panicked |-> FALSE,
              path |-> captures.g1,
              fragment |-> IF captures.g2.some /\ captures.g2.text # <<>>
                           THEN Some(captures.g2.text)
                           ELSE None]
        ELSE [panicked |-> TRUE, path |-> <<>>, fragment |-> None]

-----------------------------------------------------------------------------
(* std::path on unix, as used by src/tree.rs *)

RootDir == [kind |-> "RootDir", name |-> <<SEP>>]
CurDir == [kind |-> "CurDir", name |-> <<DOT>>]
ParentDir == [kind |-> "ParentDir", name |-> <<DOT, DOT>>]
Normal(n) == [kind |-> "Normal", name |-> n]

\* the pieces of s between separators, empty pieces included
RECURSIVE Split(_)
Split(s) ==
    IF ~HasChar(s, SEP) THEN <<s>>
    ELSE LET i == CHOOSE k \in 1..Len(s) :
                      s[k] = SEP /\ \A j \in 1..(k - 1) : s[j] # SEP
         IN  <<Prefix(s, i - 1)>> \o Split(Suffix(s, i + 1))

\* Path::components(): repeated separators and a trailing separator are
\* ignored, and so is every "." but one that starts a path with no root.
Components(s) ==
    LET has_root == Len(s) > 0 /\ s[1] = SEP
        pieces == Split(s)
        Comp(i) ==
            IF pieces[i] = <<>> THEN <<>>
            ELSE IF pieces[i] = <<DOT>>
                 THEN (IF i = 1 /\ ~has_root THEN <<CurDir>> ELSE <<>>)
            ELSE IF pieces[i] = <<DOT, DOT>> THEN <<ParentDir>>
            ELSE <<Normal(pieces[i])>>
        RECURSIVE From(_)
        From(i) == IF i > Len(pieces) THEN <<>> ELSE Comp(i) \o From(i + 1)
    IN  (IF has_root THEN <<RootDir>> ELSE <<>>) \o From(1)

\* The text of the path that a run of components is a view of, for a path
\* with no redundant separator and no inner ".".
RECURSIVE Render(_)
Render(comps) ==
    IF comps = <<>> THEN <<>>
    ELSE IF Len(comps) = 1 THEN comps[1].name
    ELSE IF comps[1].kind = "RootDir" THEN <<SEP>> \o Render(Tail(comps))
    ELSE comps[1].name \o <<SEP>> \o Render(Tail(comps))

\* Path::is_absolute()
IsAbsolute(s) == Len(s) > 0 /\ s[1] = SEP

\* PathBuf::push(p): an absolute p replaces the buffer; otherwise a separator
\* is added when the buffer is not empty and does not end with one.
PathBufPush(buf, p) ==
    IF IsAbsolute(p) THEN p
    ELSE IF buf # <<>> /\ buf[Len(buf)] # SEP THEN buf \o <<SEP>> \o p
    ELSE buf \o p

\* Path::join(p)
Join(base, p) == PathBufPush(base, p)

\* Path::parent(): None when the path ends in a root or is empty
Parent(s) ==
    LET comps == Components(s)
    IN  IF comps = <<>> \/ comps[Len(comps)].kind = "RootDir" THEN None
        ELSE Some(Render(SubSeq(comps, 1, Len(comps) - 1)))

\* PathBuf::pop(): truncates to the parent, or leaves the buffer alone
PathBufPop(buf) ==
    LET parent == Parent(buf)
    IN  IF parent.some THEN parent.text ELSE buf

\* StripRootPrefix that strips whatever component comes first
StripFirstComponent(ret) ==
    LET comps == Components(ret)
    IN  IF comps # <<>> THEN Render(Tail(comps)) ELSE ret

\* ret.strip_prefix("/").map(Path::to_path_buf).unwrap_or(ret)
StripRootPrefix(ret) ==
    LET comps == Components(ret)
    IN  IF comps # <<>> /\ comps[1].kind = "RootDir"
        THEN Render(Tail(comps))
        ELSE ret

\* Path::extension(): the text after the last '.' of the file name, None
\* when the name has no '.' or only a leading one
Extension(s) ==
    LET comps == Components(s)
    IN  IF comps = <<>> \/ comps[Len(comps)].kind # "Normal" THEN None
        ELSE LET name == comps[Len(comps)].name
                 dots == {i \in 2..Len(name) : name[i] = DOT}
             IN  IF dots = {} THEN None
                 ELSE Some(Suffix(name,
                          (CHOOSE i \in dots : \A j \in dots : j <= i) + 1))

-----------------------------------------------------------------------------
(* normalize_path, src/tree.rs:81-106 *)

\* NormalizeStep that keeps a ".." it cannot resolve
NormalizeStepKeepsParent(ret, component) ==
    CASE component.kind = "RootDir" -> PathBufPush(ret, component.name)
      [] component.kind = "CurDir" -> ret
      [] component.kind = "ParentDir" ->
             IF Parent(ret).some THEN PathBufPop(ret)
             ELSE PathBufPush(ret, component.name)
      [] component.kind = "Normal" -> PathBufPush(ret, component.name)

\* One turn of the loop of lines 90-104
NormalizeStep(ret, component) ==
    CASE component.kind = "RootDir" -> PathBufPush(ret, component.name)
      [] component.kind = "CurDir" -> ret
      [] component.kind = "ParentDir" -> PathBufPop(ret)
      [] component.kind = "Normal" -> PathBufPush(ret, component.name)

RECURSIVE NormalizeLoop(_, _)
NormalizeLoop(ret, components) ==
    IF components = <<>> THEN ret
    ELSE NormalizeLoop(NormalizeStep(ret, Head(components)), Tail(components))

\* No unix path has a Prefix component, so ret starts empty.
NormalizePath(path) == StripRootPrefix(NormalizeLoop(<<>>, Components(path)))

-----------------------------------------------------------------------------
(* HtmlInfo::parse, src/html.rs:26-46 *)

Letters == {"a", "b", "c", "d", "e", "h", "i", "l", "m", "n", "p", "t", "x", "y"}

http == <<"h", "t", "t", "p">>

RECURSIVE Without(_, _)
Without(s, c) ==
    IF s = <<>> THEN <<>>
    ELSE (IF Head(s) = c THEN <<>> ELSE <<Head(s)>>) \o Without(Tail(s), c)

\* Url::parse(href) of the url crate, with no base URL: line feeds are removed
\* from the input; an input that does not start with a scheme (a letter, then
\* letters or '.', then ':') is RelativeUrlWithoutBase; an http URL needs a
\* host after its slashes (EmptyHost otherwise); every other input with a
\* scheme parses.
UrlParse(href) ==
    LET t == Without(href, NL)
        colons == {i \in 1..Len(t) : t[i] = ":"}
        colon == CHOOSE i \in colons : \A j \in colons : i <= j
        has_scheme == /\ colons # {}
                      /\ colon > 1
                      /\ t[1] \in Letters
                      /\ \A k \in 2..(colon - 1) : t[k] \in Letters \cup {DOT}
        RECURSIVE SkipSlashes(_)
        SkipSlashes(r) ==
            IF r # <<>> /\ Head(r) = SEP THEN SkipSlashes(Tail(r)) ELSE r
        rest == SkipSlashes(Suffix(t, colon + 1))
    IN  IF ~has_scheme THEN "RelativeUrlWithoutBase"
        ELSE IF Prefix(t, colon - 1) = http /\ (rest = <<>> \/ Head(rest) = HASH)
             THEN "EmptyHost"
        ELSE "Ok"

\* An element of a parsed document: its tag name and its href and id
\* attributes.  A document is the sequence of its elements in document order
\* (Html::parse_document and the selectors belong to the scraper crate).
Element(tag, href, id) == [tag |-> tag, href |-> href, id |-> id]

\* select("a[href]"), then attr("href")
LinkHrefs(document) ==
    LET IsLink(e) == e.tag = "a" /\ e.href.some
        links == SelectSeq(document, IsLink)
    IN  [i \in 1..Len(links) |-> links[i].href.text]

\* select("*[id]"), then attr("id")
ElementIds(document) ==
    LET HasId(e) == e.id.some
        with_id == SelectSeq(document, HasId)
    IN  [i \in 1..Len(with_id) |-> with_id[i].id.text]

\* the predicate of the partition of line 33
IsRelativeHref(href) == UrlParse(href) = "RelativeUrlWithoutBase"

HtmlInfoParse(document) ==
    LET hrefs == LinkHrefs(document)
        NotRelative(h) == ~IsRelativeHref(h)
    IN  [relative_hrefs |-> SelectSeq(hrefs, IsRelativeHref),
         external_hrefs |-> SelectSeq(hrefs, NotRelative),
         ids |-> ElementIds(document)]

-----------------------------------------------------------------------------
(* HtmlFiles, src/tree.rs:33-79 *)

index_html == <<"i", "n", "d", "e", "x", ".", "h", "t", "m", "l">>
html == <<"h", "t", "m", "l">>

\* HashMap<PathBuf, _>: two paths are the same key when their components are
\* the same (PathBuf's Eq and Hash).
SameKey(p, q) == Components(p) = Components(q)

\* HashMap::get
Get(map, path) ==
    LET hits == {k \in DOMAIN map : SameKey(k, path)}
    IN  IF hits = {} THEN [some |-> FALSE, info |-> HtmlInfoParse(<<>>)]
        ELSE [some |-> TRUE, info |-> map[CHOOSE k \in hits : TRUE]]

\* HashMap::insert: the value of a key that is present is replaced
Insert(map, path, info) ==
    LET hits == {k \in DOMAIN map : SameKey(k, path)}
        key == IF hits = {} THEN path ELSE CHOOSE k \in hits : TRUE
    IN  [k \in DOMAIN map \cup {key} |-> IF k = key THEN info ELSE map[k]]

InSeq(s, x) == \E i \in 1..Len(s) : s[i] = x

\* Contains that looks for the fragment in both documents
ContainsInEitherDocument(map, l) ==
    LET direct == Get(map, l.path)
        with_index == Get(map, Join(l.path, index_html))
    IN  IF direct.some \/ with_index.some
        THEN (IF l.fragment.some
              THEN \/ direct.some /\ InSeq(direct.info.ids, l.fragment.text)
                   \/ with_index.some
                        /\ InSeq(with_index.info.ids, l.fragment.text)
              ELSE TRUE)
        ELSE FALSE

\* HtmlFiles::contains, lines 53-65
Contains(map, l) ==
    LET path_with_index == Join(l.path, index_html)
        direct == Get(map, l.path)
        entry == IF direct.some THEN direct ELSE Get(map, path_with_index)
    IN  IF entry.some
        THEN (IF l.fragment.some
              THEN InSeq(entry.info.ids, l.fragment.text)
              ELSE TRUE)
        ELSE FALSE

\* lines 72-74: the link an href of the document at file_path stands for;
\* parent() is Some for every path with a file name
ResolveHref(file_path, href) ==
    HtmlFileLinkNew(NormalizePath(Join(Parent(file_path).text, href)))

\* RelativeHrefsOf that goes through the external hrefs as well
AllHrefsOf(info) == info.relative_hrefs \o info.external_hrefs

\* the hrefs one document uses, in the order the iterator of lines 70-75
\* yields them
RelativeHrefsOf(info) == info.relative_hrefs

\* lines 70-75 for one document: the links that are not contained, in order;
\* panicked when HtmlFileLink::new panics on one of them
RECURSIVE MissingOf(_, _, _)
MissingOf(map, file_path, hrefs) ==
    IF hrefs = <<>> THEN [panicked |-> FALSE, links |-> <<>>]
    ELSE LET l == ResolveHref(file_path, Head(hrefs))
             rest == MissingOf(map, file_path, Tail(hrefs))
         IN  IF l.panicked \/ rest.panicked
             THEN [panicked |-> TRUE, links |-> <<>>]
             ELSE [panicked |-> FALSE,
                   links |-> (IF Contains(map, l) THEN <<>> ELSE <<l>>)
                             \o rest.links]

\* HtmlFiles::missing_file_links, lines 66-78, with the map iterated in the
\* given order of its keys
RECURSIVE MissingFileLinksIn(_, _)
MissingFileLinksIn(map, order) ==
    IF order = <<>> THEN [panicked |-> FALSE, links |-> <<>>]
    ELSE LET first == MissingOf(map, Head(order),
                                RelativeHrefsOf(map[Head(order)]))
             rest == MissingFileLinksIn(map, Tail(order))
         IN  IF first.panicked \/ rest.panicked
             THEN [panicked |-> TRUE, links |-> <<>>]
             ELSE [panicked |-> FALSE, links |-> first.links \o rest.links]

\* every order in which a HashMap may yield the keys in S
RECURSIVE Orders(_)
Orders(S) ==
    IF S = {} THEN {<<>>}
    ELSE UNION {{<<k>> \o o : o \in Orders(S \ {k})} : k \in S}

-----------------------------------------------------------------------------
(* The inputs of the model *)

\* most files a scanned tree holds
MaxFiles == 2

Alphabet == {"a", HASH, SEP, DOT, NL}

\* the inputs the tests of src/tree.rs and the documentation name
Examples ==
    { <<"f", "o", "o">>,
      <<"f", "o", "o", "/", "b", "a", "r">>,
      <<"/", "f", "o", "o", "/", "b", "a", "r">>,
      <<"f", "o", "o", "#", "b", "a", "r">>,
      <<"f", "o", "o", "#", "b", "a", "r", "#", "b", "a", "z">>,
      <<"f", "o", "o", "#">>,
      <<"#", "f", "o", "o">>,
      <<"a", "/", ".", ".", "/", ".", ".", "/", "b">>,
      <<".", ".", "/", ".", ".", "/", "x">>,
      <<"/", "a", "b", "o", "u", "t", ".", "h", "t", "m", "l">>,
      <<"a", "b", "o", "u", "t", ".", "h", "t", "m", "l">>,
      <<"a", "/", ".", "/", "b", "/", ".", ".", "/", "c">>,
      <<"a", "/", ".", ".", "/", "c", ".", "h", "t", "m", "l">> }

Inputs == StringsUpTo(Alphabet, MaxLen) \cup Examples

A(href) == Element("a", Some(href), None)
AWithId(href, id) == Element("a", Some(href), Some(id))
Anchor(id) == Element("a", None, Some(id))
Div(id) == Element("div", None, Some(id))
LinkTag(href) == Element("link", Some(href), None)

b_html == <<"b", ".", "h", "t", "m", "l">>
c_html == <<"c", ".", "h", "t", "m", "l">>
a_b_html == <<"a", "/", "b", ".", "h", "t", "m", "l">>
a_index_html == <<"a", "/", "i", "n", "d", "e", "x", ".", "h", "t", "m", "l">>
c_txt == <<"c", ".", "t", "x", "t">>
d_html == <<"d", ".", "h", "t", "m", "l">>

href_up == <<".", ".", "/", "c", ".", "h", "t", "m", "l">>
href_self == <<"#", "x">>
href_frag == <<"b", ".", "h", "t", "m", "l", "#", "x">>
href_root == <<"/", "b", ".", "h", "t", "m", "l">>
href_nohost == <<"h", "t", "t", "p", ":", "/", "/">>
href_url == <<"h", "t", "t", "p", ":", "/", "/", "c">>
href_dir == <<"a">>
href_hashes == <<"b", ".", "h", "t", "m", "l", "#", "x", "#", "y">>
href_newline == <<"c", "\n", "d">>

\* the documents a file of the scanned tree may hold
Docs ==
    { <<>>,
      <<AWithId(href_self, <<"x">>)>>,
      <<A(href_self)>>,
      <<A(href_up)>>,
      <<A(href_frag), A(href_frag)>>,
      <<A(href_nohost), A(href_url), A(href_root), Div(<<"y">>)>>,
      <<A(href_dir), Div(<<"x">>)>>,
      <<A(href_hashes)>>,
      <<A(href_newline)>>,
      <<LinkTag(href_up), Anchor(<<"x">>), A(href_url)>> }

\* What WalkDir yields for a tree, in its order, with the root stripped
\* (lines 39-44): every entry of a full tree.  c.txt stands for every entry
\* with another extension or none; d.html is a directory.
FullWalk ==
    << [path |-> a_b_html, is_dir |-> FALSE],
       [path |-> a_index_html, is_dir |-> FALSE],
       [path |-> b_html, is_dir |-> FALSE],
       [path |-> c_txt, is_dir |-> FALSE],
       [path |-> d_html, is_dir |-> TRUE],
       [path |-> index_html, is_dir |-> FALSE] >>

\* the entries of FullWalk at the positions in S, in order
RECURSIVE Pick(_, _)
Pick(S, from) ==
    IF from > Len(FullWalk) THEN <<>>
    ELSE (IF from \in S THEN <<FullWalk[from]>> ELSE <<>>) \o Pick(S, from + 1)

\* the walks of the trees that hold at most MaxFiles of these entries
Walks ==
    {Pick(S, 1) : S \in {T \in SUBSET (1..Len(FullWalk)) :
                             Cardinality(T) <= MaxFiles}}

NoLink == [panicked |-> FALSE, path |-> <<>>, fragment |-> None]
NoLinks == [panicked |-> FALSE, links |-> <<>>]
NoFiles == [k \in {} |-> HtmlInfoParse(<<>>)]

-----------------------------------------------------------------------------
(* The run of the checker: HtmlFiles::new, then missing_file_links *)

Init ==
    /\ pc = "walk"
    /\ walk \in Walks
    /\ files = NoFiles
    /\ found = FALSE
    /\ missing = NoLinks
    /\ input = <<>>
    /\ link = NoLink
    /\ norm = <<>>
    /\ norm2 = <<>>

\* One turn of the loop of lines 39-49: an entry named *.html is read and
\* parsed, which fails for a directory and ends new() with the error.
WalkEntry ==
    /\ pc = "walk"
    /\ walk # <<>>
    /\ LET entry == Head(walk)
       IN  IF Extension(entry.path) = Some(html)
           THEN IF entry.is_dir
                THEN /\ pc' = "failed"
                     /\ UNCHANGED files
                ELSE /\ \E document \in Docs :
                            files' = Insert(files, entry.path,
                                            HtmlInfoParse(document))
                     /\ pc' = "walk"
           ELSE /\ pc' = "walk"
                /\ UNCHANGED files
    /\ walk' = Tail(walk)
    /\ UNCHANGED <<input, link, norm, norm2, found, missing>>

\* line 51: Ok(HtmlFiles(map))
WalkDone ==
    /\ pc = "walk"
    /\ walk = <<>>
    /\ pc' = "built"
    /\ UNCHANGED <<input, link, norm, norm2, walk, files, found, missing>>

\* HtmlFiles::missing_file_links()
MissingFileLinks ==
    /\ pc = "built"
    /\ \E order \in Orders(DOMAIN files) :
           missing' = MissingFileLinksIn(files, order)
    /\ pc' = "done"
    /\ UNCHANGED <<input, link, norm, norm2, walk, files, found>>

Next == WalkEntry \/ WalkDone \/ MissingFileLinks

Spec == Init /\ [][Next]_vars

-----------------------------------------------------------------------------
(* HtmlFileLink::new on its own *)

InitLink ==
    /\ pc = "link"
    /\ input \in Inputs
    /\ link = NoLink
    /\ norm = <<>>
    /\ norm2 = <<>>
    /\ walk = <<>>
    /\ files = NoFiles
    /\ found = FALSE
    /\ missing = NoLinks

NewLink ==
    /\ pc = "link"
    /\ link' = HtmlFileLinkNew(input)
    /\ pc' = "linked"
    /\ UNCHANGED <<input, norm, norm2, walk, files, found, missing>>

NextLink == NewLink

SpecLink == InitLink /\ [][NextLink]_vars

-----------------------------------------------------------------------------
(* normalize_path on its own, and on its own result *)

InitNorm ==
    /\ pc = "norm"
    /\ input \in Inputs
    /\ link = NoLink
    /\ norm = <<>>
    /\ norm2 = <<>>
    /\ walk = <<>>
    /\ files = NoFiles
    /\ found = FALSE
    /\ missing = NoLinks

Normalize ==
    /\ pc = "norm"
    /\ norm' = NormalizePath(input)
    /\ pc' = "normalized"
    /\ UNCHANGED <<input, link, norm2, walk, files, found, missing>>

NormalizeAgain ==
    /\ pc = "normalized"
    /\ norm2' = NormalizePath(norm)
    /\ pc' = "renormalized"
    /\ UNCHANGED <<input, link, norm, walk, files, found, missing>>

NextNorm == Normalize \/ NormalizeAgain

SpecNorm == InitNorm /\ [][NextNorm]_vars

-----------------------------------------------------------------------------
(* test_html_files_contains, src/tree.rs:144-189: an index filled entry by  *)
(* entry with html_files!, then contains(&HtmlFileLink::new(href))          *)

b_html_index_html == <<"b", ".", "h", "t", "m", "l", "/", "i", "n", "d", "e", "x", ".", "h", "t", "m", "l">>
root_a_index_html == <<"/", "a", "/", "i", "n", "d", "e", "x", ".", "h", "t", "m", "l">>

TestKeys == {b_html, b_html_index_html, a_index_html, root_a_index_html}

TestDocs == {<<>>, <<Div(<<"x">>)>>, <<AWithId(<<"a">>, <<"y">>)>>}

\* the hrefs the test asks about
Queries ==
    { b_html,
      <<"b", ".", "h", "t", "m", "l", "#", "x">>,
      <<"b", ".", "h", "t", "m", "l", "#", "y">>,
      <<"b", ".", "h", "t", "m", "l", "/">>,
      <<"b", ".", "h", "t", "m", "l", "/", "#", "x">>,
      <<"a">>,
      <<"a", "#", "y">>,
      <<"a", "/", "#", "x">>,
      <<"/", "a">>,
      <<"/", "a", "/", "i", "n", "d", "e", "x", ".", "h", "t", "m", "l", "#", "x">>,
      c_html }

InitTest ==
    /\ pc = "fill"
    /\ input = <<>>
    /\ link = NoLink
    /\ norm = <<>>
    /\ norm2 = <<>>
    /\ walk = <<>>
    /\ files = NoFiles
    /\ found = FALSE
    /\ missing = NoLinks

\* html_files!(files, key => value), lines 161-163
HtmlFilesInsert ==
    /\ pc = "fill"
    /\ Cardinality(DOMAIN files) < MaxFiles
    /\ \E key \in TestKeys \ DOMAIN files, document \in TestDocs :
           files' = Insert(files, key, HtmlInfoParse(document))
    /\ UNCHANGED <<pc, input, link, norm, norm2, walk, found, missing>>

\* files.contains(&HtmlFileLink::new(href)), lines 177-188
ContainsCall ==
    /\ pc = "fill"
    /\ \E href \in Queries :
           /\ input' = href
           /\ link' = HtmlFileLinkNew(href)
           /\ found' = Contains(files, HtmlFileLinkNew(href))
    /\ pc' = "queried"
    /\ UNCHANGED <<norm, norm2, walk, files, missing>>

NextTest == HtmlFilesInsert \/ ContainsCall

SpecContains == InitTest /\ [][NextTest]_vars

-----------------------------------------------------------------------------
(* Properties of HtmlFileLink::new (checked under SpecLink) *)

foo == <<"f", "o", "o">>
foo_hash == <<"f", "o", "o", "#">>
hash_foo == <<"#", "f", "o", "o">>
foo_bar == <<"f", "o", "o", "#", "b", "a", "r">>
foo_bar_baz == <<"f", "o", "o", "#", "b", "a", "r", "#", "b", "a", "z">>
bar_hash_baz == <<"b", "a", "r", "#", "b", "a", "z">>

FirstHash(s) == CHOOSE i \in 1..Len(s) :
                    s[i] = HASH /\ \A j \in 1..(i - 1) : s[j] # HASH
LastHash(s) == CHOOSE i \in 1..Len(s) :
                   s[i] = HASH /\ \A j \in (i + 1)..Len(s) : s[j] # HASH

\* the fragment a raw fragment text stands for
FragmentOf(text) == IF text = <<>> THEN None ELSE Some(text)

\* C1 as stated: for every input with a '#', the link that new returns has
\* path = the text before the FIRST '#' and fragment = the text after it,
\* further '#' included; "foo#bar#baz" gives ("foo", Some("bar#baz")).
C1_SplitsOnFirstHash ==
    (pc = "linked" /\ HasChar(input, HASH) /\ ~link.panicked) =>
        /\ link.path = Prefix(input, FirstHash(input) - 1)
        /\ link.fragment = FragmentOf(Suffix(input, FirstHash(input) + 1))
        /\ input = foo_bar_baz =>
               link.path = foo /\ link.fragment = Some(bar_hash_baz)

\* C1, amended: for every input with a '#', new panics exactly when a line
\* feed precedes the LAST '#', and otherwise returns path = the text before
\* the last '#' (earlier '#' stay in path) and fragment = the text after it;
\* "foo#bar#baz" gives ("foo#bar", Some("baz")).
C1_SplitsOnLastHash ==
    (pc = "linked" /\ HasChar(input, HASH)) =>
        /\ link.panicked <=> HasChar(Prefix(input, LastHash(input) - 1), NL)
        /\ ~link.panicked =>
               /\ link.path = Prefix(input, LastHash(input) - 1)
               /\ link.fragment = FragmentOf(Suffix(input, LastHash(input) + 1))
        /\ input = foo_bar_baz =>
               /\ ~link.panicked
               /\ link.path = foo_bar
               /\ link.fragment = Some(<<"b", "a", "z">>)

C1_Witness ==
    /\ pc = "linked"
    /\ input = foo_bar_baz
    /\ link.path = foo_bar

\* C4 as stated: the path of every link that new returns holds no '#'.
C4_PathHasNoHash ==
    (pc = "linked" /\ ~link.panicked) => ~HasChar(link.path, HASH)

\* C4, amended: the path of every link that new returns holds every '#' of
\* the input but the last, so it holds no '#' exactly when the input holds at
\* most one.
C4_PathKeepsAllButLastHash ==
    (pc = "linked" /\ ~link.panicked) =>
        /\ CountChar(link.path, HASH) =
               (IF HasChar(input, HASH) THEN CountChar(input, HASH) - 1 ELSE 0)
        /\ ~HasChar(link.path, HASH) <=> CountChar(input, HASH) <= 1

C4_Witness ==
    /\ pc = "linked"
    /\ input = foo_bar
    /\ link.path = foo
    /\ ~HasChar(link.path, HASH)

\* C8: new returns for every input; fragment is Some(text) only when the
\* input has a '#' and the text after it is not empty, never Some(""); an
\* input with no '#' gives (input, None); "foo#" gives ("foo", None), "#"
\* gives ("", None), "" gives ("", None), "#foo" gives ("", Some("foo")).
C8_FragmentOnlyWhenNotEmpty ==
    pc = "linked" =>
        /\ ~link.panicked
        /\ link.fragment.some =>
               HasChar(input, HASH) /\ link.fragment.text # <<>>
        /\ ~HasChar(input, HASH) =>
               link.path = input /\ link.fragment = None
        /\ input = foo_hash => link.path = foo /\ link.fragment = None
        /\ input = <<HASH>> => link.path = <<>> /\ link.fragment = None
        /\ input = <<>> => link.path = <<>> /\ link.fragment = None
        /\ input = hash_foo => link.path = <<>> /\ link.fragment = Some(foo)

-----------------------------------------------------------------------------
(* Properties of normalize_path (checked under SpecNorm) *)

\* What is left of the segments of a path when "." is dropped and each ".."
\* removes the last segment kept so far, if there is one.
RECURSIVE KeptSegments(_, _)
KeptSegments(kept, pieces) ==
    IF pieces = <<>> THEN kept
    ELSE LET piece == Head(pieces)
         IN  KeptSegments(
                 IF piece = <<>> \/ piece = <<DOT>> THEN kept
                 ELSE IF piece = <<DOT, DOT>>
                      THEN (IF kept = <<>> THEN kept
                            ELSE SubSeq(kept, 1, Len(kept) - 1))
                 ELSE Append(kept, piece),
                 Tail(pieces))

RECURSIVE Joined(_)
Joined(segments) ==
    IF segments = <<>> THEN <<>>
    ELSE IF Len(segments) = 1 THEN segments[1]
    ELSE segments[1] \o <<SEP>> \o Joined(Tail(segments))

about_html == <<"a", "b", "o", "u", "t", ".", "h", "t", "m", "l">>
root_about_html == <<"/", "a", "b", "o", "u", "t", ".", "h", "t", "m", "l">>
a_up_up_b == <<"a", "/", ".", ".", "/", ".", ".", "/", "b">>
up_up_x == <<".", ".", "/", ".", ".", "/", "x">>
a_dot_b_up_c == <<"a", "/", ".", "/", "b", "/", ".", ".", "/", "c">>

\* C5: normalize_path(normalize_path(p)) = normalize_path(p).
C5_NormalizeIdempotent ==
    pc = "renormalized" => norm2 = norm

C5_Witness ==
    /\ pc = "renormalized"
    /\ input = a_dot_b_up_c
    /\ norm = <<"a", SEP, "c">>
    /\ norm2 = norm

\* C6: the result of normalize_path has no leading separator and no "." or
\* ".." segment; it is the kept segments of the input ("." dropped, ".."
\* removing the last kept segment or nothing), joined by separators;
\* "a/../../b" gives "b", "../../x" gives "x", "./a" gives "a", "" gives "",
\* and "/about.html" gives what "about.html" gives.
C6_NormalizeResult ==
    pc \in {"normalized", "renormalized"} =>
        /\ norm = Joined(KeptSegments(<<>>, Split(input)))
        /\ ~IsAbsolute(norm)
        /\ \A i \in 1..Len(Split(norm)) :
               Split(norm)[i] \notin {<<DOT>>, <<DOT, DOT>>}
        /\ input = a_up_up_b => norm = <<"b">>
        /\ input = up_up_x => norm = <<"x">>
        /\ input = <<DOT, SEP, "a">> => norm = <<"a">>
        /\ input = <<>> => norm = <<>>
        /\ input \in {root_about_html, about_html} => norm = about_html

C6_Witness ==
    /\ pc = "normalized"
    /\ input = a_up_up_b
    /\ norm = <<"b">>

-----------------------------------------------------------------------------
(* Properties of HtmlFiles::contains (checked under SpecContains) *)

Indexed(path) == \E k \in DOMAIN files : SameKey(k, path)

\* the ids of the document indexed at path
IdsAt(path) ==
    LET info == files[CHOOSE k \in DOMAIN files : SameKey(k, path)]
    IN  {info.ids[i] : i \in 1..Len(info.ids)}

FragmentIn(ids) == ~link.fragment.some \/ link.fragment.text \in ids

\* C2: contains(link) is true exactly when link.path is indexed and the
\* fragment is absent or an id of that document, or link.path is not indexed,
\* link.path joined with "index.html" is, and the fragment is absent or an id
\* of that document; the ids of path/index.html play no part when path is
\* indexed.
C2_ContainsLookup ==
    pc = "queried" =>
        LET with_index == Join(link.path, index_html)
        IN  found <=>
                \/ Indexed(link.path) /\ FragmentIn(IdsAt(link.path))
                \/ /\ ~Indexed(link.path)
                   /\ Indexed(with_index)
                   /\ FragmentIn(IdsAt(with_index))

\* both keys are indexed and only path/index.html has the id: not contained
C2_Witness ==
    /\ pc = "queried"
    /\ Indexed(link.path)
    /\ Indexed(Join(link.path, index_html))
    /\ link.fragment.some
    /\ link.fragment.text \in IdsAt(Join(link.path, index_html))
    /\ ~found

-----------------------------------------------------------------------------
(* Properties of the run (checked under Spec) *)

Count(s, x) == Cardinality({i \in 1..Len(s) : s[i] = x})

\* the occurrences of relative hrefs in the corpus: (key, position)
Occurrences ==
    UNION {{<<k, i>> : i \in 1..Len(files[k].relative_hrefs)} :
               k \in DOMAIN files}

LinkOf(occ) == ResolveHref(occ[1], files[occ[1]].relative_hrefs[occ[2]])

\* the occurrences whose link is not contained
Uncontained ==
    {occ \in Occurrences :
         ~LinkOf(occ).panicked /\ ~Contains(files, LinkOf(occ))}

\* C3: missing_file_links() returns one entry per occurrence of a relative
\* href whose link is not contained, and nothing else; the corpus of one
\* document "a/b.html" with the one href "../c.html" gives the link with path
\* "c.html" once.
C3_MissingIsTheUncontained ==
    pc = "done" =>
        /\ ~missing.panicked
        /\ \A occ \in Uncontained :
               Count(missing.links, LinkOf(occ)) =
                   Cardinality({o \in Uncontained : LinkOf(o) = LinkOf(occ)})
        /\ Len(missing.links) = Cardinality(Uncontained)
        /\ (DOMAIN files = {a_b_html}
              /\ files[a_b_html].relative_hrefs = <<href_up>>) =>
               missing.links =
                   <<[panicked |-> FALSE, path |-> c_html, fragment |-> None]>>

\* C7: in every indexed document, every href of relative_hrefs fails to parse
\* as an absolute URL and every href of external_hrefs parses as one.
C7_PartitionByParseSuccess ==
    \A k \in DOMAIN files :
        /\ \A i \in 1..Len(files[k].relative_hrefs) :
               UrlParse(files[k].relative_hrefs[i]) # "Ok"
        /\ \A i \in 1..Len(files[k].external_hrefs) :
               UrlParse(files[k].external_hrefs[i]) = "Ok"

\* C9: every entry of missing_file_links() is the link of an occurrence of an
\* href classified as relative, and there are no more entries than such
\* occurrences.
C9_NoExternalInMissing ==
    pc = "done" =>
        /\ \A i \in 1..Len(missing.links) :
               \E occ \in Occurrences :
                   /\ IsRelativeHref(files[occ[1]].relative_hrefs[occ[2]])
                   /\ missing.links[i] = LinkOf(occ)
        /\ Len(missing.links) <= Cardinality(Occurrences)

\* a document with external hrefs, and a missing link reported
C9_Witness ==
    /\ pc = "done"
    /\ \E k \in DOMAIN files : files[k].external_hrefs # <<>>
    /\ missing.links # <<>>

\* a fragment-only href: '#' and a fragment with no further '#'
FragmentOnly(href) ==
    /\ Len(href) > 1
    /\ href[1] = HASH
    /\ ~HasChar(Tail(href), HASH)

\* C10: a fragment-only href "#x" in a document that has the id x gives no
\* entry of missing_file_links(), whatever else is indexed.
C10_FragmentOnlyResolvesToSelf ==
    (pc = "done" /\ ~missing.panicked) =>
        \A occ \in Occurrences :
            LET href == files[occ[1]].relative_hrefs[occ[2]]
            IN  (FragmentOnly(href) /\ InSeq(files[occ[1]].ids, Tail(href)))
                    => ~InSeq(missing.links, LinkOf(occ))

====
